---- MODULE Spec2Model ----
(***************************************************************************)
(* A model of the go-webfinger client: identifier parsing, host            *)
(* resolution, query URL construction, the JRD accessors and the lookup    *)
(* orchestrator (Client.Lookup / LookupResource / fetchJRD).               *)
(*                                                                         *)
(* A Go string is a sequence of bytes; here it is a sequence of            *)
(* one-character strings.  A byte outside printable ASCII is the token     *)
(* "x<code>", and so are the double quote, the backslash and the           *)
(* backquote.  The functions of net/url that client.go calls are modelled  *)
(* as that package computes them (Go 1.19 and later).                      *)
(***************************************************************************)
EXTENDS Naturals, Sequences, FiniteSets, TLC

\* F applied to the value of e, with e evaluated once
Let(e, F(_)) == CHOOSE out \in {F(v) : v \in {e}} : TRUE

(***************************************************************************)
(* Bytes and the strings package                                           *)
(***************************************************************************)
Printable ==
    <<" ","!","x34","#","$","%","&","'","(",")","*","+",",","-",".","/","0","1","2","3","4","5","6","7","8","9",":",";","<","=",">","?","@","A","B","C","D","E","F","G","H","I","J","K","L","M","N","O","P","Q","R","S","T","U","V","W","X","Y","Z","[","x92","]","^","_","x96","a","b","c","d","e","f","g","h","i","j","k","l","m","n","o","p","q","r","s","t","u","v","w","x","y","z","{","|","}","~">>

ByteChar(n) == IF n \in 32..126 THEN Printable[n - 31] ELSE "x" \o ToString(n)

Ord(c) ==
    IF \E i \in 1..95 : Printable[i] = c
    THEN 31 + (CHOOSE i \in 1..95 : Printable[i] = c)
    ELSE CHOOSE n \in 0..255 : ByteChar(n) = c

UpperLetters == {Printable[i] : i \in 34..59}

LowerLetters == {Printable[i] : i \in 66..91}

Digits == {Printable[i] : i \in 17..26}

IsLetter(c) == c \in LowerLetters \cup UpperLetters

IsAlnum(c) == IsLetter(c) \/ c \in Digits

ToLowerChar(c) == IF c \in UpperLetters THEN ByteChar(Ord(c) + 32) ELSE c

\* strings.ToLower
ToLower(s) == [i \in 1..Len(s) |-> ToLowerChar(s[i])]

\* strings.Index for a one-byte separator, 1-based; 0 when absent
Index(s, c) ==
    IF \E i \in 1..Len(s) : s[i] = c
    THEN CHOOSE i \in 1..Len(s) : s[i] = c /\ \A j \in 1..(i - 1) : s[j] # c
    ELSE 0

\* strings.LastIndex for a one-byte separator, 1-based; 0 when absent
LastIndex(s, c) ==
    IF \E i \in 1..Len(s) : s[i] = c
    THEN CHOOSE i \in 1..Len(s) : s[i] = c /\ \A j \in (i + 1)..Len(s) : s[j] # c
    ELSE 0

\* strings.Count for a one-byte separator
Count(s, c) == Cardinality({i \in 1..Len(s) : s[i] = c})

HasPrefix(s, p) == Len(p) <= Len(s) /\ SubSeq(s, 1, Len(p)) = p

HasSuffix(s, p) == Len(p) <= Len(s) /\ SubSeq(s, Len(s) - Len(p) + 1, Len(s)) = p

\* strings.Contains
Contains(s, sub) ==
    \E i \in 1..(Len(s) - Len(sub) + 1) : SubSeq(s, i, i + Len(sub) - 1) = sub

\* strings.Cut for a one-byte separator: the text before and after its first
\* occurrence (all of s, and nothing, when it is absent)
CutBefore(s, c) == IF Index(s, c) = 0 THEN s ELSE SubSeq(s, 1, Index(s, c) - 1)

CutAfter(s, c) == IF Index(s, c) = 0 THEN <<>> ELSE SubSeq(s, Index(s, c) + 1, Len(s))

\* strings.SplitN(s, sep, 2) for a one-byte separator
SplitN2(s, c) == IF Index(s, c) = 0 THEN <<s>> ELSE <<CutBefore(s, c), CutAfter(s, c)>>

(***************************************************************************)
(* net/url: escaping                                                       *)
(***************************************************************************)
HexLower == <<"a","b","c","d","e","f">>

HexUpper == <<"A","B","C","D","E","F">>

UpperHex == <<"0","1","2","3","4","5","6","7","8","9","A","B","C","D","E","F">>

ishex(c) ==
    c \in Digits \/ (\E i \in 1..6 : HexLower[i] = c) \/ (\E i \in 1..6 : HexUpper[i] = c)

unhex(c) ==
    IF c \in Digits THEN Ord(c) - 48
    ELSE IF \E i \in 1..6 : HexLower[i] = c
         THEN 9 + (CHOOSE i \in 1..6 : HexLower[i] = c)
         ELSE 9 + (CHOOSE i \in 1..6 : HexUpper[i] = c)

\* net/url shouldEscape; mode is one of "path", "host", "userPassword",
\* "queryComponent", "fragment"
shouldEscape(c, mode) ==
    IF IsAlnum(c) THEN FALSE
    ELSE IF mode = "host" /\ c \in {"!","$","&","'","(",")","*","+",",",";","=",":","[","]","<",">","x34"}
    THEN FALSE
    ELSE IF c \in {"-","_",".","~"} THEN FALSE
    ELSE IF c \in {"$","&","+",",","/",":",";","=","?","@"}
    THEN CASE mode = "path" -> c = "?"
           [] mode = "userPassword" -> c \in {"@","/","?",":"}
           [] mode = "queryComponent" -> TRUE
           [] mode = "fragment" -> FALSE
           [] OTHER -> TRUE
    ELSE IF mode = "fragment" /\ c \in {"!","(",")","*"} THEN FALSE
    ELSE TRUE

\* the first pass of net/url unescape: the positions at which it fails
unescapeErrors(s, mode) ==
    {i \in 1..Len(s) :
        \/ /\ s[i] = "%"
           /\ \/ i + 2 > Len(s)
              \/ ~ishex(s[i + 1])
              \/ ~ishex(s[i + 2])
              \/ /\ mode = "host"
                 /\ unhex(s[i + 1]) < 8
                 /\ SubSeq(s, i, i + 2) # <<"%","2","5">>
        \/ /\ s[i] # "%"
           /\ mode = "host"
           /\ (Len(s[i]) = 1 \/ Ord(s[i]) < 128)
           /\ shouldEscape(s[i], mode)}

RECURSIVE unescapeFrom(_, _, _)
\* the second pass of net/url unescape, from position i on
unescapeFrom(s, i, mode) ==
    IF i > Len(s) THEN <<>>
    ELSE IF s[i] = "%"
    THEN <<ByteChar(16 * unhex(s[i + 1]) + unhex(s[i + 2]))>> \o unescapeFrom(s, i + 3, mode)
    ELSE IF s[i] = "+" /\ mode = "queryComponent"
    THEN <<" ">> \o unescapeFrom(s, i + 1, mode)
    ELSE <<s[i]>> \o unescapeFrom(s, i + 1, mode)

\* net/url unescape: [err, val]
unescape(s, mode) ==
    Let(unescapeErrors(s, mode), LAMBDA errs :
        IF errs # {}
        THEN [err |-> IF s[CHOOSE i \in errs : \A j \in errs : i <= j] = "%"
                      THEN "invalid URL escape" ELSE "invalid character in host name",
              val |-> <<>>]
        ELSE [err |-> "", val |-> unescapeFrom(s, 1, mode)])

RECURSIVE escapeFrom(_, _, _)
escapeFrom(s, i, mode) ==
    IF i > Len(s) THEN <<>>
    ELSE IF shouldEscape(s[i], mode)
    THEN (IF s[i] = " " /\ mode = "queryComponent"
          THEN <<"+">>
          ELSE <<"%", UpperHex[(Ord(s[i]) \div 16) + 1], UpperHex[(Ord(s[i]) % 16) + 1]>>)
         \o escapeFrom(s, i + 1, mode)
    ELSE <<s[i]>> \o escapeFrom(s, i + 1, mode)

\* net/url escape
escape(s, mode) == escapeFrom(s, 1, mode)

\* net/url QueryEscape
QueryEscape(s) == escape(s, "queryComponent")

\* net/url validEncoded
validEncoded(s, mode) ==
    \A i \in 1..Len(s) :
        \/ s[i] \in {"!","$","&","'","(",")","*","+",",",";","=",":","@","[","]","%"}
        \/ ~shouldEscape(s[i], mode)

(***************************************************************************)
(* net/url: URL, Parse and String                                          *)
(***************************************************************************)
\* a nil *url.Userinfo
NoUser == [set |-> FALSE, username |-> <<>>, password |-> <<>>, passwordSet |-> FALSE]

\* the zero url.URL
EmptyURL ==
    [Scheme |-> <<>>, Opaque |-> <<>>, User |-> NoUser, Host |-> <<>>,
     Path |-> <<>>, RawPath |-> <<>>, OmitHost |-> FALSE, ForceQuery |-> FALSE,
     RawQuery |-> <<>>, Fragment |-> <<>>, RawFragment |-> <<>>]

UrlErr(e) == [err |-> e, u |-> EmptyURL]

UrlOk(u) == [err |-> "", u |-> u]

\* whether the loop of net/url getScheme stops at byte i: it is neither a
\* letter nor, past the first position, one of 0-9 + - .
schemeStopsAt(rawURL, i) ==
    /\ ~IsLetter(rawURL[i])
    /\ ~(i > 1 /\ rawURL[i] \in Digits \cup {"+","-","."})

\* the first byte at which the loop of getScheme stops; 0 when it runs out
schemeStop(rawURL) ==
    IF \E i \in 1..Len(rawURL) : schemeStopsAt(rawURL, i)
    THEN CHOOSE i \in 1..Len(rawURL) :
             schemeStopsAt(rawURL, i) /\ \A j \in 1..(i - 1) : ~schemeStopsAt(rawURL, j)
    ELSE 0

\* net/url getScheme: [scheme, rest, err]
getScheme(rawURL) ==
    Let(schemeStop(rawURL), LAMBDA i :
        IF i > 0 /\ rawURL[i] = ":"
        THEN IF i = 1
             THEN [scheme |-> <<>>, rest |-> <<>>, err |-> "missing protocol scheme"]
             ELSE [scheme |-> SubSeq(rawURL, 1, i - 1),
                   rest |-> SubSeq(rawURL, i + 1, Len(rawURL)), err |-> ""]
        ELSE [scheme |-> <<>>, rest |-> rawURL, err |-> ""])

\* net/url validUserinfo
validUserinfo(s) ==
    \A i \in 1..Len(s) :
        IsAlnum(s[i]) \/ s[i] \in {"-",".","_",":","~","!","$","&","'","(",")","*","+",",",";","=","%","@"}

\* net/url validOptionalPort
validOptionalPort(port) ==
    \/ port = <<>>
    \/ /\ port[1] = ":"
       /\ \A i \in 2..Len(port) : port[i] \in Digits

\* net/url parseHost, for a host that is no bracketed IP literal: [err, val]
parseHost(host) ==
    IF /\ LastIndex(host, ":") # 0
       /\ ~validOptionalPort(SubSeq(host, LastIndex(host, ":"), Len(host)))
    THEN [err |-> "invalid port after host", val |-> <<>>]
    ELSE unescape(host, "host")

AuthorityErr(e) == [err |-> e, user |-> NoUser, host |-> <<>>]

\* net/url parseAuthority, past parseHost: the userinfo before the last "@"
parseUserinfo(userinfo, host) ==
    IF ~validUserinfo(userinfo) THEN AuthorityErr("net/url: invalid userinfo")
    ELSE Let(unescape(CutBefore(userinfo, ":"), "userPassword"), LAMBDA name :
         IF name.err # "" THEN AuthorityErr(name.err)
         ELSE IF Index(userinfo, ":") = 0
         THEN [err |-> "", host |-> host,
               user |-> [set |-> TRUE, username |-> name.val, password |-> <<>>,
                         passwordSet |-> FALSE]]
         ELSE Let(unescape(CutAfter(userinfo, ":"), "userPassword"), LAMBDA pass :
              IF pass.err # "" THEN AuthorityErr(pass.err)
              ELSE [err |-> "", host |-> host,
                    user |-> [set |-> TRUE, username |-> name.val, password |-> pass.val,
                              passwordSet |-> TRUE]]))

\* net/url parseAuthority: [err, user, host]
parseAuthority(authority) ==
    Let(LastIndex(authority, "@"), LAMBDA i :
    Let(parseHost(SubSeq(authority, i + 1, Len(authority))), LAMBDA h :
        IF h.err # "" THEN AuthorityErr(h.err)
        ELSE IF i = 0 THEN [err |-> "", user |-> NoUser, host |-> h.val]
        ELSE Let(SubSeq(authority, 1, i - 1), LAMBDA userinfo :
                 parseUserinfo(userinfo, h.val))))

\* net/url URL.setPath
setPath(u, p) ==
    Let(unescape(p, "path"), LAMBDA path :
        IF path.err # "" THEN UrlErr(path.err)
        ELSE UrlOk([u EXCEPT !.Path = path.val,
                             !.RawPath = IF escape(path.val, "path") = p THEN <<>> ELSE p]))

\* net/url parse, past the split into scheme, query and rest: the authority
\* and the path of a URL that is not opaque
parseHier(u, rest) ==
    IF (u.Scheme # <<>> \/ ~HasPrefix(rest, <<"/","/","/">>)) /\ HasPrefix(rest, <<"/","/">>)
    THEN Let(SubSeq(rest, 3, Len(rest)), LAMBDA afterSlashes :
         Let(CutBefore(afterSlashes, "/"), LAMBDA authority :
         Let(parseAuthority(authority), LAMBDA pa :
             IF pa.err # "" THEN UrlErr(pa.err)
             ELSE setPath([u EXCEPT !.User = pa.user, !.Host = pa.host],
                          SubSeq(afterSlashes, Len(authority) + 1, Len(afterSlashes))))))
    ELSE setPath([u EXCEPT !.OmitHost = (u.Scheme # <<>> /\ HasPrefix(rest, <<"/">>))], rest)

\* net/url parse: the query cut off what follows the scheme, [rest, force, query]
splitQuery(rest) ==
    IF HasSuffix(rest, <<"?">>) /\ Count(rest, "?") = 1
    THEN [rest |-> SubSeq(rest, 1, Len(rest) - 1), force |-> TRUE, query |-> <<>>]
    ELSE [rest |-> CutBefore(rest, "?"), force |-> FALSE, query |-> CutAfter(rest, "?")]

\* net/url parse(rawURL, viaRequest = false)
parse(rawURL) ==
    IF \E i \in 1..Len(rawURL) : Len(rawURL[i]) > 1 /\ Ord(rawURL[i]) \in (0..31) \cup {127}
    THEN UrlErr("net/url: invalid control character in URL")
    ELSE IF rawURL = <<"*">> THEN UrlOk([EmptyURL EXCEPT !.Path = <<"*">>])
    ELSE Let(getScheme(rawURL), LAMBDA gs :
         IF gs.err # "" THEN UrlErr(gs.err)
         ELSE Let(splitQuery(gs.rest), LAMBDA q :
              Let([EmptyURL EXCEPT !.Scheme = ToLower(gs.scheme),
                                   !.ForceQuery = q.force,
                                   !.RawQuery = q.query], LAMBDA u :
                  IF ~HasPrefix(q.rest, <<"/">>) /\ u.Scheme # <<>>
                  THEN UrlOk([u EXCEPT !.Opaque = q.rest])
                  ELSE IF ~HasPrefix(q.rest, <<"/">>) /\ Index(CutBefore(q.rest, "/"), ":") # 0
                  THEN UrlErr("first path segment in URL cannot contain colon")
                  ELSE parseHier(u, q.rest))))

\* net/url URL.setFragment
setFragment(u, f) ==
    Let(unescape(f, "fragment"), LAMBDA frag :
        IF frag.err # "" THEN UrlErr(frag.err)
        ELSE UrlOk([u EXCEPT !.Fragment = frag.val,
                             !.RawFragment = IF escape(frag.val, "fragment") = f
                                             THEN <<>> ELSE f]))

\* net/url Parse: [err, u]
urlParse(rawURL) ==
    Let(parse(CutBefore(rawURL, "#")), LAMBDA p :
        IF p.err # "" THEN p
        ELSE IF CutAfter(rawURL, "#") = <<>> THEN p
        ELSE setFragment(p.u, CutAfter(rawURL, "#")))

\* net/url Userinfo.String
UserinfoString(user) ==
    IF ~user.set THEN <<>>
    ELSE escape(user.username, "userPassword")
         \o (IF user.passwordSet THEN <<":">> \o escape(user.password, "userPassword")
             ELSE <<>>)

\* net/url URL.EscapedPath
EscapedPath(u) ==
    IF /\ u.RawPath # <<>>
       /\ validEncoded(u.RawPath, "path")
       /\ unescape(u.RawPath, "path") = [err |-> "", val |-> u.Path]
    THEN u.RawPath
    ELSE IF u.Path = <<"*">> THEN u.Path
    ELSE escape(u.Path, "path")

\* net/url URL.EscapedFragment
EscapedFragment(u) ==
    IF /\ u.RawFragment # <<>>
       /\ validEncoded(u.RawFragment, "fragment")
       /\ unescape(u.RawFragment, "fragment") = [err |-> "", val |-> u.Fragment]
    THEN u.RawFragment
    ELSE escape(u.Fragment, "fragment")

\* net/url URL.String, for a URL that is not opaque: what precedes the path
\* (the scheme, "//", the userinfo and the host)
urlStringAuthority(u) ==
    (IF u.Scheme # <<>> THEN u.Scheme \o <<":">> ELSE <<>>)
    \o (IF (u.Scheme # <<>> \/ u.Host # <<>> \/ u.User.set)
           /\ ~(u.OmitHost /\ u.Host = <<>> /\ ~u.User.set)
        THEN (IF u.Host # <<>> \/ u.Path # <<>> \/ u.User.set THEN <<"/","/">> ELSE <<>>)
             \o (IF u.User.set THEN UserinfoString(u.User) \o <<"@">> ELSE <<>>)
             \o (IF u.Host # <<>> THEN escape(u.Host, "host") ELSE <<>>)
        ELSE <<>>)

\* net/url URL.String, for a URL that is not opaque: the scheme, the
\* authority and the path
urlStringHier(u) ==
    Let(urlStringAuthority(u), LAMBDA front :
    Let(EscapedPath(u), LAMBDA path :
        front
        \o (IF path # <<>> /\ path[1] # "/" /\ u.Host # <<>> THEN <<"/">>
            ELSE IF front = <<>> /\ Index(CutBefore(path, "/"), ":") # 0 THEN <<".","/">>
            ELSE <<>>)
        \o path))

\* net/url URL.String
urlString(u) ==
    (IF u.Opaque # <<>>
     THEN (IF u.Scheme # <<>> THEN u.Scheme \o <<":">> ELSE <<>>) \o u.Opaque
     ELSE urlStringHier(u))
    \o (IF u.ForceQuery \/ u.RawQuery # <<>> THEN <<"?">> \o u.RawQuery ELSE <<>>)
    \o (IF u.Fragment # <<>> THEN <<"#">> \o EscapedFragment(u) ELSE <<>>)

\* the order of Go strings: bytewise lexicographic
StrLess(a, b) ==
    \E i \in 1..(Len(b)) :
        /\ \A j \in 1..(i - 1) : j <= Len(a) /\ a[j] = b[j]
        /\ (i > Len(a) \/ Ord(a[i]) < Ord(b[i]))

RECURSIVE sortedKeys(_)
\* the keys of a url.Values in sorted order
sortedKeys(keys) ==
    IF keys = {} THEN <<>>
    ELSE LET k == CHOOSE x \in keys : \A y \in keys \ {x} : StrLess(x, y)
         IN <<k>> \o sortedKeys(keys \ {k})

RECURSIVE encodeKey(_, _, _)
\* the pairs url.Values.Encode writes for one key, from value i on, each
\* preceded by "&"
encodeKey(k, vs, i) ==
    IF i > Len(vs) THEN <<>>
    ELSE <<"&">> \o QueryEscape(k) \o <<"=">> \o QueryEscape(vs[i]) \o encodeKey(k, vs, i + 1)

RECURSIVE encodeKeys(_, _, _)
encodeKeys(v, ks, i) ==
    IF i > Len(ks) THEN <<>>
    ELSE encodeKey(ks[i], v[ks[i]], 1) \o encodeKeys(v, ks, i + 1)

\* net/url Values.Encode: v maps each key to the list of its values
ValuesEncode(values) ==
    Let(values, LAMBDA v :
    Let(sortedKeys(DOMAIN v), LAMBDA ks :
    Let(encodeKeys(v, ks, 1), LAMBDA all :
        IF all = <<>> THEN <<>> ELSE Tail(all))))

(***************************************************************************)
(* client.go: Resource                                                     *)
(***************************************************************************)
sAcct == <<"a","c","c","t">>

sMailto == <<"m","a","i","l","t","o">>

sHttps == <<"h","t","t","p","s">>

sHttp == <<"h","t","t","p">>

WellKnownPath == <<"/",".","w","e","l","l","-","k","n","o","w","n","/","w","e","b","f","i","n","g","e","r">>

kResource == <<"r","e","s","o","u","r","c","e">>

kRel == <<"r","e","l">>

\* Parse as it would be without the check for an "@" (lines 58 to 61)
ParseNoEmailCheck(rawurl) ==
    Let(urlParse(rawurl), LAMBDA u :
        IF u.err # "" THEN [err |-> u.err, r |-> EmptyURL, depth |-> 0]
        ELSE IF u.u.Scheme = <<>>
        THEN Let(sAcct \o <<":">> \o rawurl, LAMBDA acct :
             Let(urlParse(acct), LAMBDA a : [err |-> a.err, r |-> a.u, depth |-> 1]))
        ELSE [err |-> "", r |-> u.u, depth |-> 0])

RECURSIVE Parse(_)
\* Parse: [err, r, depth], depth the number of recursive calls made
Parse(rawurl) ==
    Let(urlParse(rawurl), LAMBDA u :
        IF u.err # "" THEN [err |-> u.err, r |-> EmptyURL, depth |-> 0]
        ELSE IF u.u.Scheme = <<>>
        THEN IF Len(SplitN2(rawurl, "@")) # 2
             THEN [err |-> "URL must be absolute, or an email address", r |-> EmptyURL,
                   depth |-> 0]
             ELSE Let(sAcct \o <<":">> \o rawurl, LAMBDA acct :
                      [Parse(acct) EXCEPT !.depth = @ + 1])
        ELSE [err |-> "", r |-> u.u, depth |-> 0])

\* WebFingerHost as it would be if it cut the opaque part at the last "@"
WebFingerHostLastAt(r) ==
    IF r.Host # <<>> THEN r.Host
    ELSE IF (r.Scheme = sAcct \/ r.Scheme = sMailto) /\ LastIndex(r.Opaque, "@") # 0
    THEN SubSeq(r.Opaque, LastIndex(r.Opaque, "@") + 1, Len(r.Opaque))
    ELSE <<>>

\* Resource.WebFingerHost
WebFingerHost(r) ==
    IF r.Host # <<>> THEN r.Host
    ELSE IF (r.Scheme = sAcct \/ r.Scheme = sMailto) /\ Len(SplitN2(r.Opaque, "@")) = 2
    THEN SplitN2(r.Opaque, "@")[2]
    ELSE <<>>

\* Resource.String
String(r) == urlString(r)

\* rels without the values that occur earlier in it
distinct(rels) ==
    Let({i \in 1..Len(rels) : \A j \in 1..(i - 1) : rels[j] # rels[i]}, LAMBDA keep :
        [n \in 1..Cardinality(keep) |->
            rels[CHOOSE i \in keep : Cardinality({j \in keep : j < i}) = n - 1]])

\* JRDURL as it would be if it dropped the repeated rels
JRDURLDistinctRels(r, rels) ==
    [EmptyURL EXCEPT
        !.Scheme = sHttps,
        !.Host = WebFingerHost(r),
        !.Path = WellKnownPath,
        !.RawQuery = ValuesEncode([k \in {kResource, kRel} |->
                                      IF k = kResource THEN <<String(r)>> ELSE distinct(rels)])]

\* Resource.JRDURL
JRDURL(r, rels) ==
    [EmptyURL EXCEPT
        !.Scheme = sHttps,
        !.Host = WebFingerHost(r),
        !.Path = WellKnownPath,
        !.RawQuery = ValuesEncode([k \in {kResource, kRel} |->
                                      IF k = kResource THEN <<String(r)>> ELSE rels])]

(***************************************************************************)
(* The JRD document model: ParseJRD, JRD.GetLinkByRel, JRD.GetProperty and *)
(* Link.GetProperty.  A blob is the JSON text by its structure: malformed, *)
(* or an object whose "properties" members and "links" elements are listed *)
(* in document order; a member's value is a string or null.               *)
(***************************************************************************)
NilJRD == [nil |-> TRUE, Subject |-> "", Properties |-> <<>>, Links |-> <<>>]

NilLink == [nil |-> TRUE, Rel |-> "", Href |-> "", Properties |-> <<>>]

\* a JSON object of string-or-null members decoded into a map[string]*string:
\* a key maps to its last member; null is the nil pointer
decodeProperties(members) ==
    [k \in {members[i].key : i \in 1..Len(members)} |->
        LET last == CHOOSE i \in 1..Len(members) :
                        /\ members[i].key = k
                        /\ \A j \in (i + 1)..Len(members) : members[j].key # k
        IN [null |-> members[last].null, val |-> members[last].val]]

\* ParseJRD: [err, jrd]
ParseJRD(content) ==
    IF content.malformed THEN [err |-> "invalid character", jrd |-> NilJRD]
    ELSE [err |-> "",
          jrd |-> [nil |-> FALSE,
                   Subject |-> content.subject,
                   Properties |-> decodeProperties(content.properties),
                   Links |-> [i \in 1..Len(content.links) |->
                                 [nil |-> FALSE,
                                  Rel |-> content.links[i].rel,
                                  Href |-> content.links[i].href,
                                  Properties |-> decodeProperties(content.links[i].properties)]]]]

\* GetLinkByRel as it would be if the last matching link won
GetLinkByRelLast(doc, rel) ==
    IF \E i \in 1..Len(doc.Links) : doc.Links[i].Rel = rel
    THEN doc.Links[CHOOSE i \in 1..Len(doc.Links) :
                       /\ doc.Links[i].Rel = rel
                       /\ \A j \in (i + 1)..Len(doc.Links) : doc.Links[j].Rel # rel]
    ELSE NilLink

\* JRD.GetLinkByRel
GetLinkByRel(doc, rel) ==
    IF \E i \in 1..Len(doc.Links) : doc.Links[i].Rel = rel
    THEN doc.Links[CHOOSE i \in 1..Len(doc.Links) :
                       /\ doc.Links[i].Rel = rel
                       /\ \A j \in 1..(i - 1) : doc.Links[j].Rel # rel]
    ELSE NilLink

\* GetProperty as it would be if it read a null value as text
GetPropertyNoNilCheck(holder, uri) ==
    IF uri \notin DOMAIN holder.Properties THEN ""
    ELSE IF holder.Properties[uri].null THEN "null"
    ELSE holder.Properties[uri].val

\* JRD.GetProperty and Link.GetProperty
GetProperty(holder, uri) ==
    IF uri \notin DOMAIN holder.Properties \/ holder.Properties[uri].null THEN ""
    ELSE holder.Properties[uri].val

(***************************************************************************)
(* Bounds and inputs                                                       *)
(***************************************************************************)
\* identifiers tried: every string of at most MaxLen bytes of BodyChars,
\* bare or behind "acct:" or "mailto:", and the inputs of the tests
MaxLen == 3

\* relation lists of at most MaxRels values
MaxRels == 2

\* concurrent callers of one Client
NumCallers == 2

\* members of a "properties" object, elements of a "links" array
MaxMembers == 2

MaxLinks == 2

BodyChars == {"a", "@", "%", ":", "/", "?"}

tURL == <<"h","t","t","p",":","/","/","e","x","a","m","p","l","e",".","c","o","m","/">>

tEmail == <<"b","o","b","@","e","x","a","m","p","l","e",".","c","o","m">>

tMailto == <<"m","a","i","l","t","o",":","b","o","b","@","e","x","a","m","p","l","e",".","c","o","m">>

tFile == <<"f","i","l","e",":","/","/","/","e","x","a","m","p","l","e">>

tEncoded == <<"a","c","c","t",":","j","u","l","i","e","t","%","4","0","c","a","p","u","l","e","t",".","e","x","a","m","p","l","e","@","s","h","o","p","p","i","n","g","s","i","t","e",".","e","x","a","m","p","l","e">>

tLiteral == <<"a","c","c","t",":","j","u","l","i","e","t","@","c","a","p","u","l","e","t",".","e","x","a","m","p","l","e","@","s","h","o","p","p","i","n","g","s","i","t","e",".","e","x","a","m","p","l","e">>

tHost == <<"e","x","a","m","p","l","e",".","c","o","m">>

tPercent == <<"%">>

tBob == <<"b","o","b">>

sShoppingsite == <<"s","h","o","p","p","i","n","g","s","i","t","e",".","e","x","a","m","p","l","e">>

TestInputs == {tURL, tEmail, tMailto, tFile, tEncoded, tLiteral, tHost, tPercent, tBob}

Prefixes == {<<>>, sAcct \o <<":">>, sMailto \o <<":">>}

Inputs ==
    {p \o b : p \in Prefixes, b \in UNION {[1..n -> BodyChars] : n \in 0..MaxLen}}
    \cup TestInputs

RelValues == {<<"a">>, <<"&","b">>}

RelLists == UNION {[1..n -> RelValues] : n \in 0..MaxRels}

Callers == 1..NumCallers

\* what the callers of the concurrent specification ask for
Calls ==
    {[id |-> tEmail, rels |-> <<<<"a">>, <<"&","b">>>>],
     [id |-> tURL, rels |-> <<>>],
     [id |-> tBob, rels |-> <<>>]}

\* the text of a transport error (error.Error)
Error(e) ==
    CASE e = "connection refused" ->
           <<"d","i","a","l"," ","t","c","p",":"," ","c","o","n","n","e","c","t",":"," ">>
           \o <<"c","o","n","n","e","c","t","i","o","n"," ","r","e","f","u","s","e","d">>
      [] e = "SSL_CERTIFICATE_ERROR" ->
           <<"S","S","L","_","C","E","R","T","I","F","I","C","A","T","E","_","E","R","R","O","R">>
      [] OTHER -> <<"i","/","o"," ","t","i","m","e","o","u","t">>

EmptyBlob == [malformed |-> FALSE, subject |-> "", properties |-> <<>>, links |-> <<>>]

BlobBob == [EmptyBlob EXCEPT !.subject = "bob@example.com"]

BlobMalformed == [EmptyBlob EXCEPT !.malformed = TRUE]

NoResponse == [err |-> "", StatusCode |-> 0, Status |-> "", Body |-> EmptyBlob, ReadErr |-> ""]

FailedGet(e) == [NoResponse EXCEPT !.err = e]

Response(code, status, body, readErr) ==
    [err |-> "", StatusCode |-> code, Status |-> status, Body |-> body, ReadErr |-> readErr]

\* JSON members of "properties": a key with a string or with null
VersionKey == "http://blgx.example.net/ns/version"

Keys == {VersionKey, "http://blgx.example.net/ns/ext"}

Members ==
    {[key |-> k, null |-> FALSE, val |-> v] : k \in Keys, v \in {"1.3", ""}}
    \cup {[key |-> k, null |-> TRUE, val |-> ""] : k \in Keys}

MemberLists == UNION {[1..n -> Members] : n \in 0..MaxMembers}

Rels == {"author", "copyright"}

Hrefs == {"http://blog.example.com/author/steve", "http://example.com/author/john"}

\* elements of "links", with no property or with one, a string or null
LinkBlobs ==
    {[rel |-> r, href |-> h, properties |-> ms] :
        r \in Rels, h \in Hrefs,
        ms \in {<<>>} \cup {<<m>> : m \in {x \in Members : x.key = VersionKey /\ (x.null \/ x.val # "")}}}

LinkLists == UNION {[1..n -> LinkBlobs] : n \in 0..MaxLinks}

\* the blobs decoded: malformed JSON, documents with properties, documents
\* with links
Blobs ==
    {BlobMalformed}
    \cup {[BlobBob EXCEPT !.properties = ms] : ms \in MemberLists}
    \cup {[BlobBob EXCEPT !.links = ls] : ls \in LinkLists}

\* what the accessors are asked for: what a document can hold and one more
AskedRels == Rels \cup {"does-not-exist"}

AskedKeys == Keys \cup {"does-not-exist"}

\* what the transport may answer to one GET
Responses ==
    {FailedGet("connection refused"), FailedGet("SSL_CERTIFICATE_ERROR"), FailedGet("timeout"),
     Response(200, "200 OK", BlobBob, ""),
     Response(200, "200 OK", BlobMalformed, ""),
     Response(200, "200 OK", BlobBob, "unexpected EOF"),
     Response(299, "299 ", BlobBob, ""),
     Response(101, "101 Switching Protocols", BlobBob, ""),
     Response(300, "300 Multiple Choices", BlobBob, ""),
     Response(404, "404 Not Found", BlobBob, "")}

\* the answers the concurrent specification draws from
CoreResponses ==
    {FailedGet("connection refused"), FailedGet("timeout"),
     Response(200, "200 OK", BlobBob, ""),
     Response(200, "200 OK", BlobMalformed, ""),
     Response(404, "404 Not Found", BlobBob, "")}

(***************************************************************************)
(* State                                                                   *)
(***************************************************************************)
VARIABLES
    AllowHTTP,      \* Client.AllowHTTP
    pc,             \* per call: idle, get, fallback, response, done
    identifier,     \* per call: Lookup's identifier argument
    relsArg,        \* per call: Lookup's rels argument
    parsed,         \* per call: what Parse(identifier) returned
    jrdURL,         \* per call: the URL that JRDURL built and fetchJRD holds
    gets,           \* per call: the URL strings handed to client.Get, in order
    resps,          \* per call: what client.Get answered, in order
    res,            \* per call: fetchJRD's res
    ret,            \* per call: what Lookup returned, [doc, err]
    bodyRead,       \* per call: whether ioutil.ReadAll(res.Body) ran
    openBodies,     \* per call: response bodies received and not closed
    pstage,         \* Resource functions applied to one input: where it stands
    rawurlIn,         \* the input of Parse
    result,         \* what Parse(rawurlIn) returned
    hostOut,        \* what WebFingerHost returned
    relsIn,         \* the rels given to JRDURL
    urlOut,         \* what JRDURL returned
    jstage,         \* JRD functions applied to one blob: where it stands
    blob,           \* the input of ParseJRD
    jrd,            \* what ParseJRD(blob) returned
    asked,          \* the accessor call made: [op, rel, uri]
    answer          \* what it returned: [link, prop]

lookupVars ==
    <<AllowHTTP, pc, identifier, relsArg, parsed, jrdURL, gets, resps, res, ret, bodyRead,
      openBodies>>

resourceVars == <<pstage, rawurlIn, result, hostOut, relsIn, urlOut>>

jrdVars == <<jstage, blob, jrd, asked, answer>>

vars == <<lookupVars, resourceVars, jrdVars>>

NoParse == [err |-> "", r |-> EmptyURL, depth |-> 0]

NoReturn == [doc |-> NilJRD, err |-> ""]

\* the callers of a Client, none of which has called yet
CallersIdle ==
    /\ pc = [p \in Callers |-> "idle"]
    /\ identifier = [p \in Callers |-> <<>>]
    /\ relsArg = [p \in Callers |-> <<>>]
    /\ parsed = [p \in Callers |-> NoParse]
    /\ jrdURL = [p \in Callers |-> EmptyURL]
    /\ gets = [p \in Callers |-> <<>>]
    /\ resps = [p \in Callers |-> <<>>]
    /\ res = [p \in Callers |-> NoResponse]
    /\ ret = [p \in Callers |-> NoReturn]
    /\ bodyRead = [p \in Callers |-> FALSE]
    /\ openBodies = [p \in Callers |-> 0]

\* a Client, with or without the fallback to http, and its callers
LookupInit == AllowHTTP \in BOOLEAN /\ CallersIdle

LookupOff == AllowHTTP = FALSE /\ CallersIdle

ResourceOff ==
    /\ pstage = "off"
    /\ rawurlIn = <<>>
    /\ result = NoParse
    /\ hostOut = <<>>
    /\ relsIn = <<>>
    /\ urlOut = EmptyURL

NoAsk == [op |-> "", rel |-> "", uri |-> "", link |-> 0]

NoAnswer == [link |-> NilLink, prop |-> ""]

JRDOff ==
    /\ jstage = "off"
    /\ blob = EmptyBlob
    /\ jrd = [err |-> "", jrd |-> NilJRD]
    /\ asked = NoAsk
    /\ answer = NoAnswer

(***************************************************************************)
(* Client.Lookup, Client.LookupResource and Client.fetchJRD                *)
(***************************************************************************)
\* the condition of the retry as it would be without "&& c.AllowHTTP"
shouldFallbackAlways(err, allowHTTP) ==
    \/ Contains(ToLower(Error(err)), <<"c","o","n","n","e","c","t","i","o","n"," ","r","e","f","u","s","e","d">>)
    \/ Contains(ToLower(Error(err)), <<"s","s","l","_","c","e","r","t","i","f","i","c","a","t","e","_","e","r","r","o","r">>)

\* the condition of fetchJRD's retry over http
shouldFallback(err, allowHTTP) ==
    /\ \/ Contains(ToLower(Error(err)), <<"c","o","n","n","e","c","t","i","o","n"," ","r","e","f","u","s","e","d">>)
       \/ Contains(ToLower(Error(err)), <<"s","s","l","_","c","e","r","t","i","f","i","c","a","t","e","_","e","r","r","o","r">>)
    /\ allowHTTP

\* the status check as it would be with "<= 300"
statusOKUpTo300(code) == 200 <= code /\ code <= 300

\* the status codes fetchJRD accepts
statusOK(code) == 200 <= code /\ code < 300

\* the downgrade as it would be if the calls shared one URL
downgradeEveryURL(urls, p) == [q \in DOMAIN urls |-> [urls[q] EXCEPT !.Scheme = sHttp]]

\* jrdURL.Scheme = "http": the URL is the one JRDURL allocated for this call
downgrade(urls, p) == [urls EXCEPT ![p].Scheme = sHttp]

\* a call returns
Return(p, doc, err) ==
    /\ ret' = [ret EXCEPT ![p] = [doc |-> doc, err |-> err]]
    /\ pc' = [pc EXCEPT ![p] = "done"]

\* Client.Lookup up to the call of fetchJRD: Parse, then JRDURL
Lookup(p, id, rels) ==
    /\ pc[p] = "idle"
    /\ identifier' = [identifier EXCEPT ![p] = id]
    /\ relsArg' = [relsArg EXCEPT ![p] = rels]
    /\ \E resource \in {Parse(id)} :
          /\ parsed' = [parsed EXCEPT ![p] = resource]
          /\ IF resource.err # ""
             THEN /\ Return(p, NilJRD, resource.err)
                  /\ UNCHANGED jrdURL
             ELSE /\ jrdURL' = [jrdURL EXCEPT ![p] = JRDURL(resource.r, rels)]
                  /\ pc' = [pc EXCEPT ![p] = "get"]
                  /\ UNCHANGED ret
    /\ UNCHANGED <<AllowHTTP, gets, resps, res, bodyRead, openBodies>>
    /\ UNCHANGED <<resourceVars, jrdVars>>

\* fetchJRD: the first client.Get, answered by the transport with one of
\* answers, and the handling of its error
Get(p, answers) ==
    /\ pc[p] = "get"
    /\ \E url \in {urlString(jrdURL[p])}, answered \in answers :
          /\ gets' = [gets EXCEPT ![p] = Append(@, url)]
          /\ resps' = [resps EXCEPT ![p] = Append(@, answered)]
          /\ IF answered.err # ""
             THEN IF shouldFallback(answered.err, AllowHTTP)
                  THEN /\ jrdURL' = downgrade(jrdURL, p)
                       /\ pc' = [pc EXCEPT ![p] = "fallback"]
                       /\ UNCHANGED <<res, ret, openBodies>>
                  ELSE /\ Return(p, NilJRD, answered.err)
                       /\ UNCHANGED <<jrdURL, res, openBodies>>
             ELSE /\ res' = [res EXCEPT ![p] = answered]
                  /\ openBodies' = [openBodies EXCEPT ![p] = @ + 1]
                  /\ pc' = [pc EXCEPT ![p] = "response"]
                  /\ UNCHANGED <<jrdURL, ret>>
    /\ UNCHANGED <<AllowHTTP, identifier, relsArg, parsed, bodyRead>>
    /\ UNCHANGED <<resourceVars, jrdVars>>

\* fetchJRD: the second client.Get, over http
FallbackGet(p, answers) ==
    /\ pc[p] = "fallback"
    /\ \E url \in {urlString(jrdURL[p])}, answered \in answers :
          /\ gets' = [gets EXCEPT ![p] = Append(@, url)]
          /\ resps' = [resps EXCEPT ![p] = Append(@, answered)]
          /\ IF answered.err # ""
             THEN /\ Return(p, NilJRD, answered.err)
                  /\ UNCHANGED <<res, openBodies>>
             ELSE /\ res' = [res EXCEPT ![p] = answered]
                  /\ openBodies' = [openBodies EXCEPT ![p] = @ + 1]
                  /\ pc' = [pc EXCEPT ![p] = "response"]
                  /\ UNCHANGED ret
    /\ UNCHANGED <<AllowHTTP, identifier, relsArg, parsed, jrdURL, bodyRead>>
    /\ UNCHANGED <<resourceVars, jrdVars>>

\* the end of fetchJRD as it would be without the check of ReadAll's error
FinishIgnoringReadErr(p) ==
    /\ pc[p] = "response"
    /\ IF ~statusOK(res[p].StatusCode)
       THEN /\ Return(p, NilJRD, res[p].Status)
            /\ UNCHANGED <<bodyRead, openBodies>>
       ELSE /\ bodyRead' = [bodyRead EXCEPT ![p] = TRUE]
            /\ openBodies' = [openBodies EXCEPT ![p] = @ - 1]
            /\ Return(p, ParseJRD(res[p].Body).jrd, ParseJRD(res[p].Body).err)
    /\ UNCHANGED <<AllowHTTP, identifier, relsArg, parsed, jrdURL, gets, resps, res>>
    /\ UNCHANGED <<resourceVars, jrdVars>>

\* fetchJRD from the status check on: read the body, close it, decode it
Finish(p) ==
    /\ pc[p] = "response"
    /\ IF ~statusOK(res[p].StatusCode)
       THEN /\ Return(p, NilJRD, res[p].Status)
            /\ UNCHANGED <<bodyRead, openBodies>>
       ELSE /\ bodyRead' = [bodyRead EXCEPT ![p] = TRUE]
            /\ openBodies' = [openBodies EXCEPT ![p] = @ - 1]
            /\ IF res[p].ReadErr # ""
               THEN Return(p, NilJRD, res[p].ReadErr)
               ELSE Return(p, ParseJRD(res[p].Body).jrd, ParseJRD(res[p].Body).err)
    /\ UNCHANGED <<AllowHTTP, identifier, relsArg, parsed, jrdURL, gets, resps, res>>
    /\ UNCHANGED <<resourceVars, jrdVars>>

Init == LookupInit /\ ResourceOff /\ JRDOff

Next ==
    \E p \in Callers :
        \/ \E c \in Calls : Lookup(p, c.id, c.rels)
        \/ Get(p, CoreResponses)
        \/ FallbackGet(p, CoreResponses)
        \/ Finish(p)

\* concurrent callers of one Client
Spec == Init /\ [][Next]_vars

NextSolo ==
    \/ pc[1] = "idle" /\ \E id \in Inputs : Lookup(1, id, <<>>)
    \/ Get(1, Responses)
    \/ FallbackGet(1, Responses)
    \/ Finish(1)

\* one call of Lookup, on any identifier and with any answer of the transport
SpecSolo == Init /\ [][NextSolo]_vars

(***************************************************************************)
(* The functions of Resource applied to one input: Parse, then             *)
(* WebFingerHost, then JRDURL                                              *)
(***************************************************************************)
InitParse ==
    /\ LookupOff /\ JRDOff
    /\ pstage = "input"
    /\ rawurlIn \in Inputs
    /\ result = NoParse
    /\ hostOut = <<>>
    /\ relsIn = <<>>
    /\ urlOut = EmptyURL

\* r, err := Parse(rawurl)
DoParse ==
    /\ pstage = "input"
    /\ \E parsedUrl \in {Parse(rawurlIn)} :
          /\ result' = parsedUrl
          /\ pstage' = IF parsedUrl.err # "" THEN "failed" ELSE "parsed"
    /\ UNCHANGED <<rawurlIn, hostOut, relsIn, urlOut>>
    /\ UNCHANGED <<lookupVars, jrdVars>>

\* r.WebFingerHost()
DoWebFingerHost ==
    /\ pstage = "parsed"
    /\ hostOut' = WebFingerHost(result.r)
    /\ pstage' = "host"
    /\ UNCHANGED <<rawurlIn, result, relsIn, urlOut>>
    /\ UNCHANGED <<lookupVars, jrdVars>>

\* r.JRDURL(rels), which reads r and writes nothing but the URL it returns
DoJRDURL(rels) ==
    /\ pstage = "host"
    /\ relsIn' = rels
    /\ urlOut' = JRDURL(result.r, rels)
    /\ pstage' = "url"
    /\ UNCHANGED <<rawurlIn, result, hostOut>>
    /\ UNCHANGED <<lookupVars, jrdVars>>

NextParse ==
    \/ DoParse
    \/ DoWebFingerHost
    \/ \E rels \in RelLists : DoJRDURL(rels)

SpecParse == InitParse /\ [][NextParse]_vars

(***************************************************************************)
(* The functions of the JRD applied to one blob: ParseJRD, then one        *)
(* accessor                                                                *)
(***************************************************************************)
InitJRD ==
    /\ LookupOff /\ ResourceOff
    /\ jstage = "input"
    /\ blob \in Blobs
    /\ jrd = [err |-> "", jrd |-> NilJRD]
    /\ asked = NoAsk
    /\ answer = NoAnswer

\* jrd, err := ParseJRD(blob)
DoParseJRD ==
    /\ jstage = "input"
    /\ \E decoded \in {ParseJRD(blob)} :
          /\ jrd' = decoded
          /\ jstage' = IF decoded.err # "" THEN "failed" ELSE "decoded"
    /\ UNCHANGED <<blob, asked, answer>>
    /\ UNCHANGED <<lookupVars, resourceVars>>

\* jrd.GetLinkByRel(rel)
DoGetLinkByRel(rel) ==
    /\ jstage = "decoded"
    /\ asked' = [NoAsk EXCEPT !.op = "GetLinkByRel", !.rel = rel]
    /\ answer' = [NoAnswer EXCEPT !.link = GetLinkByRel(jrd.jrd, rel)]
    /\ jstage' = "asked"
    /\ UNCHANGED <<blob, jrd>>
    /\ UNCHANGED <<lookupVars, resourceVars>>

\* jrd.GetProperty(uri)
DoGetProperty(uri) ==
    /\ jstage = "decoded"
    /\ asked' = [NoAsk EXCEPT !.op = "GetProperty", !.uri = uri]
    /\ answer' = [NoAnswer EXCEPT !.prop = GetProperty(jrd.jrd, uri)]
    /\ jstage' = "asked"
    /\ UNCHANGED <<blob, jrd>>
    /\ UNCHANGED <<lookupVars, resourceVars>>

\* jrd.Links[i].GetProperty(uri)
DoLinkGetProperty(i, uri) ==
    /\ jstage = "decoded"
    /\ i \in 1..Len(jrd.jrd.Links)
    /\ asked' = [NoAsk EXCEPT !.op = "Link.GetProperty", !.uri = uri, !.link = i]
    /\ answer' = [NoAnswer EXCEPT !.prop = GetProperty(jrd.jrd.Links[i], uri)]
    /\ jstage' = "asked"
    /\ UNCHANGED <<blob, jrd>>
    /\ UNCHANGED <<lookupVars, resourceVars>>

NextJRD ==
    \/ DoParseJRD
    \/ \E rel \in AskedRels : DoGetLinkByRel(rel)
    \/ \E uri \in AskedKeys : DoGetProperty(uri)
    \/ \E i \in 1..MaxLinks, uri \in AskedKeys : DoLinkGetProperty(i, uri)

SpecJRD == InitJRD /\ [][NextJRD]_vars

(***************************************************************************)
(* Properties of Client.Lookup, checked on one call (SpecSolo)             *)
(***************************************************************************)
sConnectionRefused == <<"c","o","n","n","e","c","t","i","o","n"," ","r","e","f","u","s","e","d">>

sSslCertificateError == <<"s","s","l","_","c","e","r","t","i","f","i","c","a","t","e","_","e","r","r","o","r">>

\* the transport errors whose lower-cased text names a refused connection
\* or a certificate error
KnownFailures ==
    {e \in {r.err : r \in Responses} :
        \/ Contains(ToLower(Error(e)), sConnectionRefused)
        \/ Contains(ToLower(Error(e)), sSslCertificateError)}

KnownFailure(e) == e \in KnownFailures

\* url with its scheme https replaced by http
OverHTTP(url) == sHttp \o SubSeq(url, Len(sHttps) + 1, Len(url))

\* C1: the first GET of a call goes to an https URL; there is a second GET
\* only after a first GET that failed with a refused connection or a
\* certificate error while AllowHTTP is set, it goes to the same URL over
\* http, and there is no third; any other transport error, and the error of
\* the second GET, is what the call returns, with no further GET.
C1_SingleFallback ==
    /\ Len(gets[1]) <= 2
    /\ Len(gets[1]) = Len(resps[1])
    /\ gets[1] # <<>> => HasPrefix(gets[1][1], sHttps \o <<":">>)
    /\ Len(gets[1]) = 2 =>
          /\ resps[1][1].err # ""
          /\ KnownFailure(resps[1][1].err)
          /\ AllowHTTP
          /\ gets[1][2] = OverHTTP(gets[1][1])
    /\ \A i \in 1..Len(resps[1]) :
          resps[1][i].err # "" /\ ~(i = 1 /\ KnownFailure(resps[1][1].err) /\ AllowHTTP) =>
              /\ pc[1] = "done"
              /\ ret[1] = [doc |-> NilJRD, err |-> resps[1][i].err]
              /\ Len(gets[1]) = i

\* the http retry was made and failed in its turn
C1_Witness ==
    /\ pc[1] = "done"
    /\ Len(gets[1]) = 2
    /\ gets[1][2] = OverHTTP(gets[1][1])
    /\ resps[1][2].err # ""
    /\ ret[1].err = resps[1][2].err

\* C2: a response with a status outside 200..299, to the first GET or to
\* the http retry, ends the call: no further GET, the body neither read nor
\* decoded, and the call returns the status text and no document.
C2_StatusFailure ==
    \A i \in 1..Len(resps[1]) :
        resps[1][i].err = "" /\ resps[1][i].StatusCode \notin 200..299 =>
            /\ Len(gets[1]) = i
            /\ ~bodyRead[1]
            /\ pc[1] \in {"response", "done"}
            /\ pc[1] = "done" => ret[1] = [doc |-> NilJRD, err |-> resps[1][i].Status]

\* the http retry was answered 404 and the call returned "404 Not Found"
C2_Witness ==
    /\ AllowHTTP
    /\ pc[1] = "done"
    /\ Len(resps[1]) = 2
    /\ resps[1][2].err = ""
    /\ resps[1][2].StatusCode = 404
    /\ ret[1].err = "404 Not Found"
    /\ ~bodyRead[1]

\* s has no scheme: getScheme finds none
NoScheme(s) == getScheme(s).scheme = <<>>

\* s has a "%" that two hexadecimal digits do not follow
InvalidEscape(s) ==
    \E i \in 1..Len(s) :
        s[i] = "%" /\ ~(i + 2 <= Len(s) /\ ishex(s[i + 1]) /\ ishex(s[i + 2]))

\* s is a scheme followed by something that does not begin with "/": what
\* net/url keeps as the opaque part
OpaqueForm(s) == ~NoScheme(s) /\ ~HasPrefix(getScheme(s).rest, <<"/">>)

\* the call of caller 1 ended in Parse, with its error and before any GET
ParseErrorReturned ==
    /\ parsed[1].err # ""
    /\ pc[1] = "done"
    /\ ret[1] = [doc |-> NilJRD, err |-> parsed[1].err]
    /\ gets[1] = <<>>

\* C3, as stated: Parse fails on every identifier without a scheme and
\* without "@" and on every identifier with an invalid percent-escape, and
\* Lookup then returns the parse error, no document, and makes no GET.
C3_AsStated ==
    pc[1] # "idle" =>
        /\ (NoScheme(identifier[1]) /\ Index(identifier[1], "@") = 0) \/ InvalidEscape(identifier[1])
              => parsed[1].err # ""
        /\ parsed[1].err # "" => ParseErrorReturned

\* C3, amended: Parse fails on every identifier without a scheme and
\* without "@", and on every identifier with an invalid percent-escape
\* before any "?" unless a scheme is followed by something that does not
\* begin with "/" (an opaque URL); when Parse fails, Lookup returns the
\* parse error, no document, and makes no GET.
C3_ParseErrors ==
    pc[1] # "idle" =>
        /\ (\/ NoScheme(identifier[1]) /\ Index(identifier[1], "@") = 0
            \/ InvalidEscape(CutBefore(identifier[1], "?")) /\ ~OpaqueForm(identifier[1]))
           => parsed[1].err # ""
        /\ parsed[1].err # "" => ParseErrorReturned

\* Lookup("%") returned the error of Parse
C3_Witness ==
    /\ identifier[1] = tPercent
    /\ InvalidEscape(identifier[1])
    /\ ParseErrorReturned

C5_LastAtHost ==
    /\ pstage = "host"
    /\ result.r.Scheme = sAcct
    /\ result.r.Host = <<>>
    /\ Count(result.r.Opaque, "@") > 1
    => /\ hostOut = SubSeq(result.r.Opaque, LastIndex(result.r.Opaque, "@") + 1,
                           Len(result.r.Opaque))
       /\ rawurlIn = tLiteral => hostOut = sShoppingsite

\* the bytes of an RFC 5322 atom
AText ==
    UpperLetters \cup LowerLetters \cup Digits
    \cup {"!", "#", "$", "%", "&", "'", "*", "+", "-", "/", "=", "?", "^", "_", "x96",
          "{", "|", "}", "~"}

\* s is local@domain: one "@", before it atoms and dots, after it letters,
\* digits, hyphens and dots, neither side empty
LocalAtDomain(s) ==
    /\ Count(s, "@") = 1
    /\ 1 < Index(s, "@") /\ Index(s, "@") < Len(s)
    /\ \A j \in 1..(Index(s, "@") - 1) : s[j] \in AText \cup {"."}
    /\ \A j \in (Index(s, "@") + 1)..Len(s) : IsAlnum(s[j]) \/ s[j] \in {"-", "."}

\* C6: Parse of a local@domain input without a scheme succeeds and gives
\* the scheme acct, the input as the opaque part, no host, no path and no
\* query, after at most one recursive call.
C6_EmailIsAcct ==
    pstage # "input" /\ LocalAtDomain(rawurlIn) /\ NoScheme(rawurlIn) =>
        /\ result.err = ""
        /\ result.r.Scheme = sAcct
        /\ result.r.Opaque = rawurlIn
        /\ result.r.Host = <<>>
        /\ result.r.Path = <<>>
        /\ result.r.RawQuery = <<>>
        /\ result.depth <= 1

\* s cut at every sep
RECURSIVE Split(_, _)
Split(s, sep) ==
    IF Index(s, sep) = 0 THEN <<s>>
    ELSE <<CutBefore(s, sep)>> \o Split(CutAfter(s, sep), sep)

\* the parameters of a query string, decoded, in the order written
QueryPairs(query) ==
    IF query = <<>> THEN <<>>
    ELSE Let(Split(query, "&"), LAMBDA parts :
             [i \in 1..Len(parts) |->
                 [key |-> unescape(CutBefore(parts[i], "="), "queryComponent").val,
                  value |-> unescape(CutAfter(parts[i], "="), "queryComponent").val]])

\* of the parameters pairs, the values of those named key, in their order
ValuesOf(pairs, key) ==
    Let(SelectSeq(pairs, LAMBDA kv : kv.key = key), LAMBDA kvs :
        [i \in 1..Len(kvs) |-> kvs[i].value])

\* the values of the parameters named key of a query string
QueryValues(query, key) == ValuesOf(QueryPairs(query), key)

\* what JRDURL returned for the Resource result.r and the relations relsIn
JRDURLReturned ==
    /\ urlOut.Scheme = sHttps
    /\ urlOut.Host = hostOut
    /\ urlOut.Path = WellKnownPath
    /\ urlOut.Opaque = <<>> /\ ~urlOut.User.set /\ urlOut.Fragment = <<>>
    /\ \E pairs \in {QueryPairs(urlOut.RawQuery)} :
          /\ ValuesOf(pairs, kResource) = <<String(result.r)>>
          /\ ValuesOf(pairs, kRel) = relsIn
          /\ Len(pairs) = 1 + Len(relsIn)

\* C7: JRDURL returns an https URL on the host WebFingerHost gives, with
\* the path /.well-known/webfinger and a query of one resource parameter,
\* the string of the Resource, and one rel parameter for each element of
\* rels, in their order and with their repetitions; the Resource is as it
\* was.
C7_JRDURL ==
    /\ [](pstage = "url" => JRDURLReturned)
    /\ [][pstage' = "url" => result' = result]_vars

\* rels held the same value twice and a value with "&", and both came out
C7_Witness ==
    /\ pstage = "url"
    /\ rawurlIn = tEmail
    /\ relsIn = <<<<"&", "b">>, <<"&", "b">>>>
    /\ QueryValues(urlOut.RawQuery, kRel) = relsIn

(***************************************************************************)
(* Properties of the JRD (SpecJRD)                                         *)
(***************************************************************************)
\* C8: GetLinkByRel returns the first link of the document, in the order
\* of its "links", whose rel is the one asked for, and nil when no link
\* has it.
C8_FirstLinkByRel ==
    jstage = "asked" /\ asked.op = "GetLinkByRel" =>
        IF \A i \in 1..Len(blob.links) : blob.links[i].rel # asked.rel
        THEN answer.link = NilLink
        ELSE \E i \in 1..Len(blob.links) :
                /\ blob.links[i].rel = asked.rel
                /\ \A j \in 1..(i - 1) : blob.links[j].rel # asked.rel
                /\ ~answer.link.nil
                /\ answer.link = jrd.jrd.Links[i]
                /\ answer.link.Rel = asked.rel
                /\ answer.link.Href = blob.links[i].href

\* two links had the rel asked for and the first of them came back
C8_Witness ==
    /\ jstage = "asked" /\ asked.op = "GetLinkByRel"
    /\ Len(blob.links) = 2
    /\ blob.links[1].rel = asked.rel /\ blob.links[2].rel = asked.rel
    /\ blob.links[1].href # blob.links[2].href
    /\ answer.link.Href = blob.links[1].href

\* the members named uri of a JSON object, in the order written
MembersNamed(members, uri) == SelectSeq(members, LAMBDA m : m.key = uri)

\* what GetProperty(uri) gives for the object "properties" as written
\* and as decoded
PropertyRead(members, decoded, uri, got) ==
    Let(MembersNamed(members, uri), LAMBDA ms :
        IF ms = <<>> THEN got = "" /\ uri \notin DOMAIN decoded
        ELSE IF ms[Len(ms)].null THEN got = "" /\ uri \in DOMAIN decoded /\ decoded[uri].null
        ELSE got = ms[Len(ms)].val /\ uri \in DOMAIN decoded /\ ~decoded[uri].null)

\* C9: a document with a null property decodes; GetProperty, of the
\* document and of a link, returns the string of a key that has one and ""
\* for a key that is absent or null, and the decoded properties tell the
\* absent key from the null one.
C9_NullProperty ==
    /\ jstage # "input" /\ ~blob.malformed => jrd.err = "" /\ ~jrd.jrd.nil
    /\ jstage = "asked" /\ asked.op = "GetProperty" =>
          PropertyRead(blob.properties, jrd.jrd.Properties, asked.uri, answer.prop)
    /\ jstage = "asked" /\ asked.op = "Link.GetProperty" =>
          PropertyRead(blob.links[asked.link].properties,
                       jrd.jrd.Links[asked.link].Properties, asked.uri, answer.prop)

\* a document had one property with a string and one with null, and the
\* null one was read as ""
C9_Witness ==
    /\ jstage = "asked" /\ asked.op = "GetProperty"
    /\ jrd.err = ""
    /\ \E i \in 1..Len(blob.properties) : blob.properties[i].val # ""
    /\ MembersNamed(blob.properties, asked.uri) # <<>>
    /\ jrd.jrd.Properties[asked.uri].null
    /\ answer.prop = ""

(***************************************************************************)
(* Properties of concurrent calls (Spec)                                   *)
(***************************************************************************)
\* what a call finds before its first GET: the error of Parse, or the URL
\* of JRDURL and the same URL over http
Prepared(c) ==
    Let(Parse(c.id), LAMBDA resource :
        IF resource.err # "" THEN [err |-> resource.err, https |-> <<>>, http |-> <<>>]
        ELSE Let(JRDURL(resource.r, c.rels), LAMBDA u :
                 [err |-> "", https |-> urlString(u),
                  http |-> urlString([u EXCEPT !.Scheme = sHttp])]))

PreparedCalls == [c \in Calls |-> Prepared(c)]

\* what fetchJRD returns on the response that ends it
Outcome(answered) ==
    IF answered.err # "" THEN [doc |-> NilJRD, err |-> answered.err]
    ELSE IF answered.StatusCode \notin 200..299 THEN [doc |-> NilJRD, err |-> answered.Status]
    ELSE IF answered.ReadErr # "" THEN [doc |-> NilJRD, err |-> answered.ReadErr]
    ELSE [doc |-> ParseJRD(answered.Body).jrd, err |-> ParseJRD(answered.Body).err]

\* the GETs and the result of the call c running alone with AllowHTTP set
\* to allowHTTP, the transport having answered so far with answers
LookupAlone(c, answers, allowHTTP) ==
    IF PreparedCalls[c].err # ""
    THEN [gets |-> <<>>, ret |-> [doc |-> NilJRD, err |-> PreparedCalls[c].err]]
    ELSE IF answers = <<>> THEN [gets |-> <<>>, ret |-> NoReturn]
    ELSE IF answers[1].err # "" /\ KnownFailure(answers[1].err) /\ allowHTTP
    THEN IF Len(answers) = 1 THEN [gets |-> <<PreparedCalls[c].https>>, ret |-> NoReturn]
         ELSE [gets |-> <<PreparedCalls[c].https, PreparedCalls[c].http>>,
               ret |-> Outcome(answers[2])]
    ELSE [gets |-> <<PreparedCalls[c].https>>, ret |-> Outcome(answers[1])]

\* C10: whatever the interleaving, each of the concurrent calls issues the
\* GETs and returns the result it would have alone, given its identifier,
\* its rels and the answers to its own GETs; the downgrade to http by one
\* call leaves the URL of every other call as it was.
C10_CallsIndependent ==
    \A p \in Callers :
        pc[p] # "idle" =>
            Let(LookupAlone([id |-> identifier[p], rels |-> relsArg[p]], resps[p], AllowHTTP),
                LAMBDA alone :
                    /\ gets[p] = alone.gets
                    /\ pc[p] = "done" => ret[p] = alone.ret
                    /\ pc[p] # "done" => ret[p] = NoReturn)

\* two calls for the same identifier ended: one went over to http, the
\* other got its document over https
C10_Witness ==
    \E p, q \in Callers :
        /\ p # q
        /\ identifier[p] = identifier[q]
        /\ pc[p] = "done" /\ pc[q] = "done"
        /\ Len(gets[p]) = 2 /\ HasPrefix(gets[p][2], sHttp \o <<":">>)
        /\ Len(gets[q]) = 1 /\ HasPrefix(gets[q][1], sHttps \o <<":">>)
        /\ ~ret[q].doc.nil

(***************************************************************************)
(* Properties of the end of a call (SpecSolo)                              *)
(***************************************************************************)
\* how far a call has come
Rank(at) ==
    CASE at = "idle" -> 0
      [] at = "get" -> 1
      [] at = "fallback" -> 2
      [] at = "response" -> 3
      [] at = "done" -> 4

\* the last answer of the transport to the call of caller 1
LastResponse == resps[1][Len(resps[1])]

\* what a returned call of caller 1 returned
LookupReturned ==
    /\ ret[1].doc.nil <=> ret[1].err # ""
    /\ ~ret[1].doc.nil =>
          /\ resps[1] # <<>>
          /\ LastResponse.err = ""
          /\ LastResponse.StatusCode \in 200..299
          /\ bodyRead[1]
          /\ LastResponse.ReadErr = ""
          /\ ~LastResponse.Body.malformed
          /\ ret[1].doc.Subject = LastResponse.Body.subject
    /\ resps[1] # <<>> /\ LastResponse.err = "" /\ LastResponse.StatusCode \in 200..299 =>
          /\ Len(gets[1]) = Len(resps[1])
          /\ LastResponse.ReadErr # "" =>
                ret[1] = [doc |-> NilJRD, err |-> LastResponse.ReadErr]
          /\ LastResponse.ReadErr = "" /\ LastResponse.Body.malformed =>
                ret[1] = [doc |-> NilJRD, err |-> "invalid character"]

\* C11: a call of Lookup ends (while it has not returned it can take a
\* step, and each step brings it nearer to its return), and it returns
\* either a document or an error, never both and never neither: a document
\* only when its last GET was answered with a status in 200..299 and the
\* body was read in full and decoded; the error of the read or of the
\* decoding otherwise, with no document and no further GET.
C11_OneResult ==
    /\ [](pc[1] # "done" => ENABLED NextSolo)
    /\ [][Rank(pc'[1]) > Rank(pc[1])]_vars
    /\ [](pc[1] = "done" => LookupReturned)
    /\ [](pc[1] # "done" => ret[1] = NoReturn)

\* the body of a 200 could not be read in full and the call returned the
\* error of the read
C11_Witness ==
    /\ pc[1] = "done"
    /\ resps[1] # <<>>
    /\ LastResponse.err = "" /\ LastResponse.StatusCode = 200
    /\ LastResponse.ReadErr # ""
    /\ ret[1] = [doc |-> NilJRD, err |-> LastResponse.ReadErr]
    /\ Len(gets[1]) = 1

\* C12: when a call has returned, every response received for it has had
\* its body closed.
C12_BodiesClosed == pc[1] = "done" => openBodies[1] = 0

====
